---------------------------- MODULE Spec2Model ----------------------------
(***************************************************************************)
(* Alignment and redraw orchestration of the tanglism chart front end.     *)
(*                                                                         *)
(* The model covers the candle series (kline), the overlay datasets        *)
(* (center, stroke, segment, subtrend), the MACD metrics, the two-cursor   *)
(* scan that annotates overlay records with candle indices, the ajax       *)
(* (callback) pass of kline.ajax/kline.draw and the websocket pass of      *)
(* prepare_data/draw.  Spec is the page with every layer checkbox ticked;  *)
(* SpecMatch is the draw of one overlay module on loaded data.  The other  *)
(* specifications are harnesses of one part each: SpecData (data(input)),  *)
(* SpecGate (checkbox and flag of a draw), SpecScan (the scan, iteration   *)
(* by iteration), SpecGeom (conf and the x attributes), SpecPass (a draw   *)
(* pass over any checkboxes, flags and records), SpecMetric (the metrics). *)
(***************************************************************************)
EXTENDS Integers, Sequences, FiniteSets, TLC

VARIABLES
    kdata,      \* kline._data: the candle series, as the sequence of its ts
    kq,         \* history: the query the candle series answers (0: none yet)
    data,       \* [Kinds -> _data]: the records of each overlay module
    dq,         \* history: [Kinds -> query the records answer] (0: none yet)
    outdate,    \* [Kinds -> _outdate]
    checked,    \* [Kinds -> state of the #<kind>_draw checkbox]
    k_lines,    \* the #k_lines svg: [exists, shapes]
    m_data,     \* metric _data: [Metrics -> sequence of ts]
    m_outdate,  \* metric _display[mn].outdate
    m_svg,      \* the #metric svg: [exists, shapes]
    pending,    \* ajax requests in flight: [request -> how many]
    params,     \* the query the input fields hold (what ajax_params() returns)
    knobs,      \* the layout inputs: #bar_width, #bar_padding_fixed, ..._width
    last        \* history: what the handler that ran last did

vars == << kdata, kq, data, dq, outdate, checked, k_lines,
           m_data, m_outdate, m_svg, pending, params, knobs, last >>

-----------------------------------------------------------------------------
(* Bounds *)

\* timestamps of the matcher harness are 1..NT
NT == 4
\* longest overlay record list of the matcher harness
MaxSegs == 2
\* queries are 1..MaxQ
MaxQ == 2
\* most ajax requests in flight at once
MaxPending == 2
\* #bar_width is MinBarWidth..MaxBarWidth pixels in the geometry harness
MinBarWidth == 9
MaxBarWidth == 14
\* #bar_padding_fixed_width is 1..MaxPadWidth pixels in the geometry harness
MaxPadWidth == 2

-----------------------------------------------------------------------------
(* Data *)

Kinds == {"center", "stroke", "segment", "subtrend"}
\* the trend module has the functions of an overlay module, and no caller
AllKinds == Kinds \cup {"trend"}
Metrics == <<"DIF", "DEA", "MACD">>
MetricNames == {"DIF", "DEA", "MACD"}
Queries == 1..MaxQ

\* a record without the property start_id / end_id
NoId == -1

\* an overlay record as the server sends it: no start_id, no end_id property
Rec(s, e) == [start_ts |-> s, end_ts |-> e, start_id |-> NoId, end_id |-> NoId]

\* item.hasOwnProperty("start_id") && item.hasOwnProperty("end_id")
HasBoth(item) == item.start_id # NoId /\ item.end_id # NoId

Range(s) == {s[i] : i \in 1..Len(s)}

RECURSIVE SelectRecs(_)
\* the filter loop after the scan: the records carrying both annotations
SelectRecs(d) ==
    IF d = <<>> THEN <<>>
    ELSE IF HasBoth(Head(d)) THEN <<Head(d)>> \o SelectRecs(Tail(d))
    ELSE SelectRecs(Tail(d))

-----------------------------------------------------------------------------
(* The two-cursor scan.  ki and si are the 0-based cursors of the code.     *)

\* sk.start_id = ki, as it would be if the index were added to the one the
\* record already carries
SetStartIdAdds(d, si, ki) ==
    [d EXCEPT ![si + 1].start_id = IF @ = NoId THEN ki ELSE @ + ki + 1]

\* sk.start_id = ki
SetStartId(d, si, ki) == [d EXCEPT ![si + 1].start_id = ki]

\* sk.end_id = ki as it would be with the candles counted from 1
SetEndIdOneBased(d, si, ki) == [d EXCEPT ![si + 1].end_id = ki + 1]

\* sk.end_id = ki
SetEndId(d, si, ki) == [d EXCEPT ![si + 1].end_id = ki]

RECURSIVE StrokeLoop(_, _, _, _)
\* stroke and segment: a start match advances ki, an end match advances si
StrokeLoop(kd, d, ki, si) ==
    IF si < Len(d) /\ ki < Len(kd)
    THEN LET sk == d[si + 1]
             k  == kd[ki + 1]
         IN  IF sk.start_ts = k THEN StrokeLoop(kd, SetStartId(d, si, ki), ki + 1, si)
             ELSE IF sk.end_ts = k THEN StrokeLoop(kd, SetEndId(d, si, ki), ki, si + 1)
             ELSE StrokeLoop(kd, d, ki + 1, si)
    ELSE d

RECURSIVE CenterLoopSkipEnd(_, _, _, _, _)
\* the loop of subtrend and center as it would be if an end match also
\* advanced ki
CenterLoopSkipEnd(kd, d, ki, ci, start_match) ==
    IF ci < Len(d) /\ ki < Len(kd)
    THEN LET cr == d[ci + 1]
             k  == kd[ki + 1]
         IN  IF ~start_match /\ cr.start_ts = k
             THEN CenterLoopSkipEnd(kd, SetStartId(d, ci, ki), ki, ci, TRUE)
             ELSE IF cr.end_ts = k
             THEN CenterLoopSkipEnd(kd, SetEndId(d, ci, ki), ki + 1, ci + 1, FALSE)
             ELSE CenterLoopSkipEnd(kd, d, ki + 1, ci, start_match)
    ELSE d

RECURSIVE CenterLoop(_, _, _, _, _)
\* subtrend and center: a start match sets start_match and keeps ki
CenterLoop(kd, d, ki, ci, start_match) ==
    IF ci < Len(d) /\ ki < Len(kd)
    THEN LET cr == d[ci + 1]
             k  == kd[ki + 1]
         IN  IF ~start_match /\ cr.start_ts = k
             THEN CenterLoop(kd, SetStartId(d, ci, ki), ki, ci, TRUE)
             ELSE IF cr.end_ts = k
             THEN CenterLoop(kd, SetEndId(d, ci, ki), ki, ci + 1, FALSE)
             ELSE CenterLoop(kd, d, ki + 1, ci, start_match)
    ELSE d

\* the scan of the kind's draw
Scan(kind, kd, d) ==
    IF kind \in {"stroke", "segment"}
    THEN StrokeLoop(kd, d, 0, 0)
    ELSE CenterLoop(kd, d, 0, 0, FALSE)

-----------------------------------------------------------------------------
(* The state a handler works on, as one record; a handler is a composition *)
(* of the functions below and the action assigns the final record.         *)

Cur == [kdata |-> kdata, kq |-> kq, data |-> data, dq |-> dq,
        outdate |-> outdate, checked |-> checked, k_lines |-> k_lines,
        m_data |-> m_data, m_outdate |-> m_outdate, m_svg |-> m_svg,
        pending |-> pending, params |-> params, knobs |-> knobs, log |-> <<>>]

NoSvg == [exists |-> FALSE, shapes |-> <<>>]
NewSvg == [exists |-> TRUE, shapes |-> <<>>]

\* the selector of the shapes a layer appends
Cls(kind) ==
    IF kind \in {"center", "trend"} THEN "rect." \o kind ELSE "line." \o kind

Shape(cls, a, b, q) == [cls |-> cls, start_id |-> a, end_id |-> b, q |-> q]

\* one entry of the log: a draw function was entered for dataset `name` of
\* `layer`, saw the flag `outdated`, handed `matched` to the renderer and
\* appended `shapes`
Entry(layer, name, outdated, matched, shapes) ==
    [layer |-> layer, name |-> name, outdated |-> outdated,
     matched |-> matched, shapes |-> shapes]

Logged(s, e) == [s EXCEPT !.log = Append(@, e)]

CountCls(shapes, cls) == Cardinality({i \in 1..Len(shapes) : shapes[i].cls = cls})

\* svg.selectAll(cls).data(items).enter(): the items beyond the elements the
\* svg already holds for the selector
Enter(shapes, cls, items) ==
    LET n == CountCls(shapes, cls)
    IN  IF n >= Len(items) THEN <<>> ELSE SubSeq(items, n + 1, Len(items))

\* the shapes appended for the matched records
OverlayShapes(kind, items, q) ==
    [i \in 1..Len(items) |-> Shape(Cls(kind), items[i].start_id, items[i].end_id, q)]

\* the layout inputs as the page loads them
DefaultKnobs == [bar_width |-> 12, fixed |-> FALSE, fixed_width |-> 2]

\* Lengths are in sixths of a pixel, so that bar_width / 3 and
\* bar_inner_width / 2 are exact for whole-pixel inputs.
Px == 6

Max(a, b) == IF a >= b THEN a ELSE b

\* conf() as it would be with the padding always bar_width / 3
ConfThird(s) ==
    LET bar_width   == Px * s.knobs.bar_width
        bar_padding == bar_width \div 3
    IN  [bar_width |-> bar_width,
         bar_padding |-> bar_padding,
         bar_inner_width |-> bar_width - bar_padding,
         w |-> bar_width * Len(s.kdata)]

\* conf(): the geometry, from the layout inputs and the candle series
Conf(s) ==
    LET bar_width   == Px * s.knobs.bar_width
        bar_padding == IF s.knobs.fixed
                       THEN Px * s.knobs.fixed_width
                       ELSE Max(bar_width \div 3, Px * 4)
    IN  [bar_width |-> bar_width,
         bar_padding |-> bar_padding,
         bar_inner_width |-> bar_width - bar_padding,
         w |-> bar_width * Len(s.kdata)]

\* x of the rect of candle i, and of the left edge of a center or trend
RectX(conf, i) == i * conf.bar_width

\* x1 = x2 of the wick line of candle i
WickX(conf, i) == i * conf.bar_width + conf.bar_inner_width \div 2

\* x1 / x2 of an overlay line as it would be without the half bar
EndXLeft(conf, id) == id * conf.bar_width

\* x1 / x2 of a stroke, segment or subtrend line with the annotation id
EndX(conf, id) == id * conf.bar_width + conf.bar_inner_width \div 2

\* the attributes x1, x2 (lines) or x, x + width (rects) of one shape
PlaceOne(sh, conf) ==
    LET xs == IF sh.cls \in {"rect", "rect.kline"}
              THEN <<RectX(conf, sh.start_id),
                     RectX(conf, sh.start_id) + conf.bar_inner_width>>
              ELSE IF sh.cls = "line.k"
              THEN <<WickX(conf, sh.start_id), WickX(conf, sh.end_id)>>
              ELSE IF sh.cls \in {"rect.center", "rect.trend"}
              THEN <<RectX(conf, sh.start_id),
                     RectX(conf, sh.start_id)
                         + conf.bar_width * (sh.end_id - sh.start_id)>>
              ELSE <<EndX(conf, sh.start_id), EndX(conf, sh.end_id)>>
    IN  [cls |-> sh.cls, start_id |-> sh.start_id, end_id |-> sh.end_id,
         q |-> sh.q, x1 |-> xs[1], x2 |-> xs[2]]

\* the shapes with the attributes the draw function computes from its conf
Place(shapes, conf) == [i \in 1..Len(shapes) |-> PlaceOne(shapes[i], conf)]

\* $.ajax(...) of kline.ajax, segment.ajax, center.ajax: one more request
Request(s, kind, q) ==
    [s EXCEPT !.pending[<<kind, q>>] = @ + 1]

\* as it would be if segment.draw only logged when outdated, as stroke.draw
FetchOnDemandCenterOnly(kind) == kind = "center"

\* segment and center fetch when outdated, stroke, subtrend and trend only log
FetchOnDemand(kind) == kind \in {"segment", "center"}

\* every draw but the one of trend returns if there is no #k_lines svg
HasSvgGuard(kind) == kind # "trend"

\* draw(config) as it would be without the return on _outdate
OverlayDrawStale(s, kind) ==
    IF ~s.checked[kind] THEN Logged(s, Entry(kind, kind, s.outdate[kind], <<>>, <<>>))
    ELSE IF HasSvgGuard(kind) /\ ~s.k_lines.exists
    THEN Logged(s, Entry(kind, kind, s.outdate[kind], <<>>, <<>>))
    ELSE IF Len(s.kdata) = 0 \/ Len(s.data[kind]) = 0
    THEN Logged(s, Entry(kind, kind, s.outdate[kind], <<>>, <<>>))
    ELSE LET d      == Scan(kind, s.kdata, s.data[kind])
             items  == SelectRecs(d)
             new    == IF s.k_lines.exists
                       THEN Place(OverlayShapes(kind,
                                    Enter(s.k_lines.shapes, Cls(kind), items),
                                    s.dq[kind]),
                                  Conf(s))
                       ELSE <<>>
         IN  Logged([s EXCEPT !.data[kind] = d,
                              !.k_lines.shapes = @ \o new],
                    Entry(kind, kind, s.outdate[kind], items, new))

\* draw(config) of the overlay modules
OverlayDraw(s, kind) ==
    IF ~s.checked[kind] THEN Logged(s, Entry(kind, kind, s.outdate[kind], <<>>, <<>>))
    ELSE IF s.outdate[kind]
    THEN Logged(IF FetchOnDemand(kind) THEN Request(s, kind, s.params) ELSE s,
                Entry(kind, kind, TRUE, <<>>, <<>>))
    ELSE IF HasSvgGuard(kind) /\ ~s.k_lines.exists
    THEN Logged(s, Entry(kind, kind, FALSE, <<>>, <<>>))
    ELSE IF Len(s.kdata) = 0 \/ Len(s.data[kind]) = 0
    THEN Logged(s, Entry(kind, kind, FALSE, <<>>, <<>>))
    ELSE LET d      == Scan(kind, s.kdata, s.data[kind])
             items  == SelectRecs(d)
             new    == IF s.k_lines.exists
                       THEN Place(OverlayShapes(kind,
                                    Enter(s.k_lines.shapes, Cls(kind), items),
                                    s.dq[kind]),
                                  Conf(s))
                       ELSE <<>>
         IN  Logged([s EXCEPT !.data[kind] = d,
                              !.k_lines.shapes = @ \o new],
                    Entry(kind, kind, FALSE, items, new))

CenterDraw(s) == OverlayDraw(s, "center")
StrokeDraw(s) == OverlayDraw(s, "stroke")
\* segment.draw as it would be if it also returned on an unchecked #stroke_draw
SegmentDrawStrokeToggle(s) ==
    IF ~s.checked["stroke"]
    THEN Logged(s, Entry("segment", "segment", s.outdate["segment"], <<>>, <<>>))
    ELSE OverlayDraw(s, "segment")

SegmentDraw(s) == OverlayDraw(s, "segment")
SubtrendDraw(s) == OverlayDraw(s, "subtrend")
TrendDraw(s) == OverlayDraw(s, "trend")

\* the shapes of the candles: one per item the enter selection holds
CandleShapes(cls, shapes, kd, q) ==
    LET n == CountCls(shapes, cls)
    IN  IF n >= Len(kd) THEN <<>>
        ELSE [i \in 1..(Len(kd) - n) |-> Shape(cls, n + i - 1, n + i - 1, q)]

\* the rects, then the wick lines, appended to the svg
AppendCandles(s, rectcls) ==
    LET conf  == Conf(s)
        rects == Place(CandleShapes(rectcls, s.k_lines.shapes, s.kdata, s.kq), conf)
        lines == Place(CandleShapes("line.k", s.k_lines.shapes \o rects, s.kdata, s.kq),
                       conf)
    IN  Logged([s EXCEPT !.k_lines.shapes = @ \o rects \o lines],
               Entry("kline", "kline", FALSE, <<>>, rects \o lines))

\* metric.draw: drop the #metric svg, then DIF, DEA, MACD in this order,
\* returning at the first one that is outdated
RECURSIVE MetricLoopSkip(_, _)
\* the loop of metric.draw as it would be if an outdated metric were passed
\* over and the next one drawn
MetricLoopSkip(s, i) ==
    IF i > Len(Metrics) THEN s
    ELSE LET mn == Metrics[i] IN
         IF s.m_outdate[mn]
         THEN MetricLoopSkip(Logged(s, Entry("metric", mn, TRUE, <<>>, <<>>)), i + 1)
         ELSE LET n   == IF mn = "MACD" THEN Len(s.m_data[mn]) ELSE 1
                  new == [j \in 1..n |-> Shape(mn, j - 1, j - 1, 0)]
              IN  MetricLoopSkip(
                    Logged([s EXCEPT !.m_svg = [exists |-> TRUE,
                                                shapes |-> @.shapes \o new]],
                           Entry("metric", mn, FALSE, <<>>, new)),
                    i + 1)

RECURSIVE MetricLoop(_, _)
MetricLoop(s, i) ==
    IF i > Len(Metrics) THEN s
    ELSE LET mn == Metrics[i] IN
         IF s.m_outdate[mn] THEN Logged(s, Entry("metric", mn, TRUE, <<>>, <<>>))
         ELSE LET n   == IF mn = "MACD" THEN Len(s.m_data[mn]) ELSE 1
                  new == [j \in 1..n |-> Shape(mn, j - 1, j - 1, 0)]
              IN  MetricLoop(
                    Logged([s EXCEPT !.m_svg = [exists |-> TRUE,
                                                shapes |-> @.shapes \o new]],
                           Entry("metric", mn, FALSE, <<>>, new)),
                    i + 1)

MetricDraw(s) == MetricLoop([s EXCEPT !.m_svg = NoSvg], 1)

\* the draw callbacks kline.draw runs, in the order of their registration
DrawCallbacks == <<"center", "stroke", "segment", "subtrend", "metric">>

\* the data callbacks kline.ajax runs: one outdate() per overlay module
DataCallbacks == <<"center", "stroke", "segment", "subtrend", "metric">>

RunDraw(s, name) ==
    CASE name = "center" -> CenterDraw(s)
      [] name = "stroke" -> StrokeDraw(s)
      [] name = "segment" -> SegmentDraw(s)
      [] name = "subtrend" -> SubtrendDraw(s)
      [] name = "metric" -> MetricDraw(s)

RECURSIVE RunDrawCallbacks(_, _)
\* for (i = 0; i < draw_callbacks.length; i++) draw_callbacks[i](conf)
RunDrawCallbacks(s, i) ==
    IF i > Len(DrawCallbacks) THEN s
    ELSE RunDrawCallbacks(RunDraw(s, DrawCallbacks[i]), i + 1)

\* outdate() of an overlay module, metric.outdate() for the three metrics
Outdate(s, name) ==
    IF name = "metric"
    THEN [s EXCEPT !.m_outdate = [mn \in MetricNames |-> TRUE]]
    ELSE [s EXCEPT !.outdate[name] = TRUE]

RECURSIVE RunDataCallbacks(_, _)
\* for (i = 0; i < data_callbacks.length; i++) data_callbacks[i](kdata)
RunDataCallbacks(s, i) ==
    IF i > Len(DataCallbacks) THEN s
    ELSE RunDataCallbacks(
             Logged(Outdate(s, DataCallbacks[i]),
                    Entry("outdate", DataCallbacks[i], TRUE, <<>>, <<>>)),
             i + 1)

\* kline.draw of the ajax pass: a new svg, the candles, then the callbacks
KlineDrawA(s) ==
    RunDrawCallbacks(AppendCandles([s EXCEPT !.k_lines = NewSvg], "rect"), 1)

\* kline.draw of the websocket pass: the candles, onto the svg there is
KlineDrawB(s) ==
    IF ~s.k_lines.exists THEN Logged(s, Entry("kline", "kline", FALSE, <<>>, <<>>))
    ELSE AppendCandles(s, "rect.kline")

\* one layer of draw() as it would be if a layer that emitted nothing ended
\* the pass
DrawIfAborting(s, has, name) ==
    IF ~has \/ (s.log # <<>> /\ s.log[Len(s.log)].shapes = <<>>) THEN s
    ELSE IF name = "kline" THEN KlineDrawB(s)
    ELSE RunDraw(s, name)

\* one layer of draw(): drawn if the set of objects of query() holds it
DrawIf(s, has, name) ==
    IF ~has THEN s
    ELSE IF name = "kline" THEN KlineDrawB(s)
    ELSE RunDraw(s, name)

\* draw() as it would be with the candles drawn before the centers
DrawCandlesFirst(s) ==
    LET s0 == [s EXCEPT !.k_lines = NewSvg]
        s1 == DrawIf(s0, TRUE, "kline")
        s2 == DrawIf(s1, s.checked["center"], "center")
        s3 == DrawIf(s2, s.checked["stroke"], "stroke")
        s4 == DrawIf(s3, s.checked["segment"], "segment")
        s5 == DrawIf(s4, s.checked["subtrend"], "subtrend")
    IN  DrawIf(s5, TRUE, "metric")

\* draw() of the websocket pass: a new svg, then the layers in this order
Draw(s) ==
    LET s0 == [s EXCEPT !.k_lines = NewSvg]
        s1 == DrawIf(s0, s.checked["center"], "center")
        s2 == DrawIf(s1, TRUE, "kline")
        s3 == DrawIf(s2, s.checked["stroke"], "stroke")
        s4 == DrawIf(s3, s.checked["segment"], "segment")
        s5 == DrawIf(s4, s.checked["subtrend"], "subtrend")
    IN  DrawIf(s5, TRUE, "metric")

\* data(input) as it would be with one flag shared by the modules
OverlayDataSharedFlag(s, kind, resp, q) ==
    IF resp.has_data
    THEN [s EXCEPT !.data[kind] = resp.data, !.dq[kind] = q,
                   !.outdate = [k \in Kinds |-> FALSE]]
    ELSE s

\* data(input) of an overlay module: `if (input) { ... }` replaces the
\* records by the array and clears the flag, and is a getter otherwise
OverlayData(s, kind, resp, q) ==
    IF resp.has_data
    THEN [s EXCEPT !.data[kind] = resp.data, !.dq[kind] = q, !.outdate[kind] = FALSE]
    ELSE s

\* kline.data(input)
KlineData(s, input, q) == [s EXCEPT !.kdata = input, !.kq = q]

\* metric.data(metric_name, input) as it would be without the loop that pops
\* the previous values
MetricDataAppend(s, mn, input) ==
    [s EXCEPT !.m_data[mn] = @ \o input, !.m_outdate[mn] = FALSE]

\* metric.data(metric_name, input)
MetricData(s, mn, input) ==
    [s EXCEPT !.m_data[mn] = input, !.m_outdate[mn] = FALSE]

-----------------------------------------------------------------------------
(* What the server answers.  Query q is the window of the three candles   *)
(* q, q+1, q+2; the overlay records it answers with are a chain over it.   *)

KLinesOf(q) == <<q, q + 1, q + 2>>

RecordsOf(q) == <<Rec(q, q + 1), Rec(q + 1, q + 2)>>

\* resp of an overlay request: resp.data an array, maybe empty, or missing
Responses(q) ==
    { [has_data |-> TRUE, data |-> RecordsOf(q)],
      [has_data |-> TRUE, data |-> <<>>],
      [has_data |-> FALSE, data |-> <<>>] }

\* resp.data of a price request, after $.map
KLineResponses(q) == { KLinesOf(q), <<>> }

Requests == {"kline", "segment", "center"} \X Queries

RECURSIVE SumOver(_, _)
SumOver(f, S) ==
    IF S = {} THEN 0
    ELSE LET x == CHOOSE y \in S : TRUE IN f[x] + SumOver(f, S \ {x})

\* the number of requests in flight
InFlight(p) == SumOver(p, Requests)

\* the response to a request arrives: the request is no longer in flight
Consume(s, kind, q) == [s EXCEPT !.pending[<<kind, q>>] = @ - 1]

\* the types a Data message of the websocket may carry
Types == {"KLines", "Strokes", "Segments", "SubTrends", "Centers", "MACD"}

KindOf(type) ==
    CASE type = "Strokes" -> "stroke"
      [] type = "Segments" -> "segment"
      [] type = "SubTrends" -> "subtrend"
      [] type = "Centers" -> "center"

\* the Data messages the server sends: every dataset of the query, or the
\* candles alone
Messages == {Types, {"KLines"}}

\* one step of the loop of prepare_data, for a dataset of the given type
PrepareOne(s, type, q) ==
    IF type = "KLines" THEN KlineData(s, KLinesOf(q), q)
    ELSE IF type = "MACD"
    THEN MetricData(MetricData(MetricData(s, "DIF", KLinesOf(q)),
                               "DEA", KLinesOf(q)), "MACD", KLinesOf(q))
    ELSE OverlayData(s, KindOf(type), [has_data |-> TRUE, data |-> RecordsOf(q)], q)

RECURSIVE PrepareData(_, _, _)
\* prepare_data(dataset): the datasets of the message, one after the other
PrepareData(s, types, q) ==
    IF types = {} THEN s
    ELSE LET ty == CHOOSE x \in types : TRUE
         IN  PrepareData(PrepareOne(s, ty, q), types \ {ty}, q)

-----------------------------------------------------------------------------
(* Actions: one per handler *)

\* the type of the dataset an overlay module is loaded from
TypeOf(kind) ==
    CASE kind = "stroke" -> "Strokes"
      [] kind = "segment" -> "Segments"
      [] kind = "subtrend" -> "SubTrends"
      [] kind = "center" -> "Centers"

\* what a handler did: its name, the module and the query it ran for, and
\* the types of the datasets whose data(input) it called with an input
Did(op, name, q, replaced) ==
    [op |-> op, name |-> name, q |-> q, replaced |-> replaced]

\* the handler ran: the variables take the record it ends with
Becomes(s, did) ==
    /\ InFlight(s.pending) <= MaxPending
    /\ kdata' = s.kdata
    /\ kq' = s.kq
    /\ data' = s.data
    /\ dq' = s.dq
    /\ outdate' = s.outdate
    /\ checked' = s.checked
    /\ k_lines' = s.k_lines
    /\ m_data' = s.m_data
    /\ m_outdate' = s.m_outdate
    /\ m_svg' = s.m_svg
    /\ pending' = s.pending
    /\ params' = s.params
    /\ knobs' = s.knobs
    /\ last' = [did |-> did, log |-> s.log]

\* the page as it would load with `var _outdate = false` in the overlay modules
InitFresh ==
    /\ kdata = <<>>
    /\ kq = 0
    /\ data = [k \in Kinds |-> <<>>]
    /\ dq = [k \in Kinds |-> 0]
    /\ outdate = [k \in Kinds |-> FALSE]
    /\ checked = [k \in Kinds |-> TRUE]
    /\ k_lines = NoSvg
    /\ m_data = [mn \in MetricNames |-> <<>>]
    /\ m_outdate = [mn \in MetricNames |-> TRUE]
    /\ m_svg = NoSvg
    /\ pending = [r \in Requests |-> 0]
    /\ params = 1
    /\ knobs = DefaultKnobs
    /\ last = [did |-> Did("init", "", 0, {}), log |-> <<>>]

\* the page after its scripts have loaded
Init ==
    /\ kdata = <<>>
    /\ kq = 0
    /\ data = [k \in Kinds |-> <<>>]
    /\ dq = [k \in Kinds |-> 0]
    /\ outdate = [k \in Kinds |-> TRUE]
    /\ checked = [k \in Kinds |-> TRUE]
    /\ k_lines = NoSvg
    /\ m_data = [mn \in MetricNames |-> <<>>]
    /\ m_outdate = [mn \in MetricNames |-> TRUE]
    /\ m_svg = NoSvg
    /\ pending = [r \in Requests |-> 0]
    /\ params = 1
    /\ knobs = DefaultKnobs
    /\ last = [did |-> Did("init", "", 0, {}), log |-> <<>>]

\* the user edits the query fields: the next query
SetParams ==
    /\ params < MaxQ
    /\ Becomes([Cur EXCEPT !.params = @ + 1], Did("params", "", params + 1, {}))

\* the input fields hold a query that passes the validation
Valid(q) == q \in Queries

\* kline.ajax(params): the price request leaves
KlineAjax ==
    /\ Valid(params)
    /\ Becomes(Request(Cur, "kline", params), Did("kline.ajax", "kline", params, {}))

\* success of kline.ajax as it would be with kline.draw() called before the
\* loop over data_callbacks
KlineAjaxSuccessDrawFirst ==
    \E q \in Queries : \E resp \in KLineResponses(q) :
        /\ pending[<<"kline", q>>] > 0
        /\ Becomes(RunDataCallbacks(KlineDrawA(
                       KlineData(Consume(Cur, "kline", q), resp, q)), 1),
                   Did("kline.success", "kline", q, {"KLines"}))

\* success of kline.ajax: the series is replaced, the data callbacks run,
\* then kline.draw
KlineAjaxSuccess ==
    \E q \in Queries : \E resp \in KLineResponses(q) :
        /\ pending[<<"kline", q>>] > 0
        /\ Becomes(KlineDrawA(RunDataCallbacks(
                       KlineData(Consume(Cur, "kline", q), resp, q), 1)),
                   Did("kline.success", "kline", q, {"KLines"}))

\* error of kline.ajax: kline.clear_drawing()
KlineAjaxError ==
    \E q \in Queries :
        /\ pending[<<"kline", q>>] > 0
        /\ Becomes([Consume(Cur, "kline", q) EXCEPT !.k_lines = NoSvg],
                   Did("kline.error", "kline", q, {}))

\* success of segment.ajax / center.ajax as it would be if a response to a
\* query other than the current one were dropped
OverlayAjaxSuccessCurrentOnly ==
    \E k \in {"segment", "center"} : \E q \in Queries : \E resp \in Responses(q) :
        /\ pending[<<k, q>>] > 0
        /\ Becomes(IF q = params
                   THEN OverlayDraw(OverlayData(Consume(Cur, k, q), k, resp, q), k)
                   ELSE Consume(Cur, k, q),
                   Did("ajax.success", k, q,
                       IF resp.has_data THEN {TypeOf(k)} ELSE {}))

\* success of segment.ajax / center.ajax: data(resp.data), draw(), table()
OverlayAjaxSuccess ==
    \E k \in {"segment", "center"} : \E q \in Queries : \E resp \in Responses(q) :
        /\ pending[<<k, q>>] > 0
        /\ Becomes(OverlayDraw(OverlayData(Consume(Cur, k, q), k, resp, q), k),
                   Did("ajax.success", k, q,
                       IF resp.has_data THEN {TypeOf(k)} ELSE {}))

\* error of segment.ajax / center.ajax: clear_table()
OverlayAjaxError ==
    \E k \in {"segment", "center"} : \E q \in Queries :
        /\ pending[<<k, q>>] > 0
        /\ Becomes(Consume(Cur, k, q), Did("ajax.error", k, q, {}))

\* ws.onmessage with a Data message: prepare_data(resp.data), draw()
WsData ==
    \E q \in {params} : \E types \in Messages :
        Becomes(Draw(PrepareData(Cur, types, q)), Did("ws.data", "", q, types))

\* change of a .draw_trigger input: draw()
DrawTrigger ==
    /\ Valid(params)
    /\ Becomes(Draw(Cur), Did("draw", "", 0, {}))

Next ==
    \/ SetParams
    \/ KlineAjax
    \/ KlineAjaxSuccess
    \/ KlineAjaxError
    \/ OverlayAjaxSuccess
    \/ OverlayAjaxError
    \/ WsData
    \/ DrawTrigger

Spec == Init /\ [][Next]_vars

-----------------------------------------------------------------------------
(* The matcher on its own: a candle series and the fresh records of one    *)
(* overlay module are loaded, the svg is there, and the module's draw runs. *)

\* the sequence of the timestamps of S, ascending
SortedSeq(S) ==
    CHOOSE s \in [1..Cardinality(S) -> S] :
        \A i, j \in 1..Cardinality(S) : i < j => s[i] < s[j]

\* candle series: strictly increasing timestamps out of 1..NT
CandleSeqs == {SortedSeq(S) : S \in SUBSET (1..NT)}

\* the boundaries of one record: it starts before it ends
Spans == {p \in (1..NT) \X (1..NT) : p[1] < p[2]}

\* lists of at most MaxSegs records in chronological order, chained
\* (end = next start) or with gaps (end < next start)
RecordLists ==
    LET lists == UNION {[1..n -> Spans] : n \in 0..MaxSegs}
        chron == {c \in lists : \A i \in 1..(Len(c) - 1) : c[i][2] <= c[i + 1][1]}
    IN  {[i \in 1..Len(c) |-> Rec(c[i][1], c[i][2])] : c \in chron}

InitMatch ==
    \E k \in AllKinds : \E kd \in CandleSeqs : \E d \in RecordLists :
        /\ kdata = kd
        /\ kq = 1
        /\ data = [j \in AllKinds |-> IF j = k THEN d ELSE <<>>]
        /\ dq = [j \in AllKinds |-> IF j = k THEN 1 ELSE 0]
        /\ outdate = [j \in AllKinds |-> j # k]
        /\ checked = [j \in AllKinds |-> TRUE]
        /\ k_lines \in {NewSvg, NoSvg}
        /\ m_data = [mn \in MetricNames |-> <<>>]
        /\ m_outdate = [mn \in MetricNames |-> TRUE]
        /\ m_svg = NoSvg
        /\ pending = [r \in Requests |-> 0]
        /\ params = 1
        /\ knobs = DefaultKnobs
        /\ last = [did |-> Did("init", "", 0, {}), log |-> <<>>]

\* draw() of the module whose records are loaded
LayerDraw ==
    \E k \in AllKinds :
        /\ ~outdate[k]
        /\ Becomes(IF k = "trend" THEN TrendDraw(Cur) ELSE RunDraw(Cur, k),
                   Did("layer.draw", k, 0, {}))

NextMatch == LayerDraw

SpecMatch == InitMatch /\ [][NextMatch]_vars

-----------------------------------------------------------------------------
(* Alignment *)

\* the records as the server sent them: the annotations taken off
Fresh(d) == [i \in 1..Len(d) |-> Rec(d[i].start_ts, d[i].end_ts)]

\* both boundary timestamps of the record occur in the candle series
InSeries(kd, r) == r.start_ts \in Range(kd) /\ r.end_ts \in Range(kd)

\* the record carries the indices of its boundaries
Aligned(kd, r) ==
    /\ HasBoth(r)
    /\ r.start_id < r.end_id
    /\ kd[r.start_id + 1] = r.start_ts
    /\ kd[r.end_id + 1] = r.end_ts

\* the list without its i-th record
Without(d, i) == SubSeq(d, 1, i - 1) \o SubSeq(d, i + 1, Len(d))

\* the module's draw ran the scan on the records it holds
Scanned ==
    /\ last.did.op = "layer.draw"
    /\ Len(last.log) = 1
    /\ HasSvgGuard(last.did.name) => k_lines.exists
    /\ kdata # <<>>
    /\ data[last.did.name] # <<>>

\* C1: after the scan, every record whose start and end timestamps both
\* occur in the candle series carries start_id < end_id, the indices of the
\* candles with these timestamps, whatever the other records of the list are.
C1_AlignmentCorrectness ==
    Scanned =>
        \A i \in 1..Len(data[last.did.name]) :
            InSeries(kdata, data[last.did.name][i])
                => Aligned(kdata, data[last.did.name][i])

\* C3: a record with a boundary that is absent from the candle series leaves
\* the annotations of every other record as the scan of the list without it
\* produces them.
C3_UnmatchedAffectsNoOther ==
    Scanned =>
        LET k == last.did.name
            d == data[k]
        IN  \A i \in 1..Len(d) :
                ~InSeries(kdata, d[i])
                    => Without(d, i) = Scan(k, kdata, Without(Fresh(d), i))

\* C4: a second run of the scan on the same candle series and the same
\* records leaves every (start_id, end_id) and the matched set as the
\* first run left them.
C4_MatcherIdempotence ==
    Scanned =>
        LET k == last.did.name
        IN  /\ Scan(k, kdata, data[k]) = data[k]
            /\ SelectRecs(Scan(k, kdata, data[k])) = last.log[1].matched

\* a scan annotated a record, and left another one without annotation
C4_Witness ==
    /\ Scanned
    /\ \E i, j \in 1..Len(data[last.did.name]) :
            /\ HasBoth(data[last.did.name][i])
            /\ ~HasBoth(data[last.did.name][j])

-----------------------------------------------------------------------------
(* Staleness and drawing *)

\* the entries of the log of the handler that ran last
LogIdx == 1..Len(last.log)

\* C2: a record whose start or end timestamp does not occur in the candle
\* series is never among the matched records a draw hands to the renderer.
C2_AlignmentExclusion ==
    \A i \in LogIdx :
        \A j \in 1..Len(last.log[i].matched) :
            InSeries(kdata, last.log[i].matched[j])

\* the handler that ran last replaced the candle series
CandlesReplaced == "KLines" \in last.did.replaced

\* C5: once a handler has replaced the candle series, every overlay dataset
\* and every metric is outdated.  (A dataset the same message reloads is left
\* out here: the statement is the claim for the datasets the handler did
\* not reload.)
C5_StalenessPropagation ==
    CandlesReplaced =>
        /\ \A k \in Kinds : TypeOf(k) \notin last.did.replaced => outdate[k]
        /\ "MACD" \notin last.did.replaced => \A mn \in MetricNames : m_outdate[mn]

\* C6: the step in which the fetch of kind K completes with records replaces
\* K alone: K's flag is false afterwards, the records and the flag of every
\* other overlay module, the metrics and the candle series are as before.
C6_ReplaceChangesOnlyK ==
    [][\A k \in Kinds :
         (last'.did.op = "ajax.success" /\ last'.did.replaced = {TypeOf(k)})
            => /\ ~outdate'[k]
               /\ \A j \in Kinds \ {k} : data'[j] = data[j] /\ outdate'[j] = outdate[j]
               /\ m_data' = m_data
               /\ m_outdate' = m_outdate
               /\ kdata' = kdata]_vars

\* a fetch completed with records while another module was outdated and a
\* third one fresh
C6_Witness ==
    /\ last.did.op = "ajax.success"
    /\ last.did.replaced # {}
    /\ ~outdate[last.did.name]
    /\ \E j \in Kinds \ {last.did.name} : outdate[j]
    /\ \E j \in Kinds \ {last.did.name} : ~outdate[j] /\ data[j] # <<>>

\* C7: a draw that finds the flag of its dataset set appends no shape.
C7_DrawContract ==
    \A i \in LogIdx : last.log[i].outdated => last.log[i].shapes = <<>>

\* an overlay draw ran on an outdated dataset that holds records, with the
\* svg and the candles there
C7_Witness ==
    \E i \in LogIdx :
        /\ last.log[i].outdated
        /\ last.log[i].layer \in Kinds
        /\ data[last.log[i].layer] # <<>>
        /\ k_lines.exists
        /\ kdata # <<>>

\* C8: the shapes an overlay draw appends come from records fetched for the
\* query the candle series held answers.
C8_SameQuery ==
    \A i \in LogIdx :
        \A j \in 1..Len(last.log[i].shapes) :
            last.log[i].layer \in Kinds => last.log[i].shapes[j].q = kq

RECURSIVE ShapesOf(_, _, _)
\* the shapes of the entries i..j of the log, one after the other
ShapesOf(log, i, j) ==
    IF i > j \/ i > Len(log) THEN <<>>
    ELSE log[i].shapes \o ShapesOf(log, i + 1, j)

\* every overlay kind is enabled and fresh, and so are the metrics
AllFresh ==
    /\ \A k \in Kinds : checked[k] /\ ~outdate[k]
    /\ \A mn \in MetricNames : ~m_outdate[mn]

\* the handler that ran last made a draw pass
DrawPass == last.did.op \in {"ws.data", "draw", "kline.success"}

\* the layers of a pass, in the order of the z-layering
PassOrder == <<"center", "kline", "stroke", "segment", "subtrend",
               "metric", "metric", "metric">>

\* C9: a draw pass with every overlay kind enabled and fresh draws the layers
\* in the order centers, candles, strokes, segments, sub-trends, metrics, and
\* the svg holds the shapes of each layer before those of the next.
C9_DrawOrder ==
    (DrawPass /\ AllFresh) =>
        /\ [i \in LogIdx |-> last.log[i].layer] = PassOrder
        /\ k_lines.shapes = ShapesOf(last.log, 1, 5)
        /\ m_svg.shapes = ShapesOf(last.log, 6, 8)

\* a pass with everything fresh in which every overlay layer and the
\* candles appended shapes
C9_Witness ==
    /\ DrawPass
    /\ AllFresh
    /\ Len(last.log) = 8
    /\ \A i \in 1..5 : last.log[i].shapes # <<>>

\* the place of a shape in the z-layering
Rank(cls) ==
    CASE cls = "rect.center" -> 1
      [] cls \in {"rect", "rect.kline", "line.k"} -> 2
      [] cls = "line.stroke" -> 3
      [] cls = "line.segment" -> 4
      [] cls = "line.subtrend" -> 5

\* C10: the shapes on the chart svg are in the append order centers, candles,
\* strokes, segments, sub-trends.
C10_ZOrder ==
    \A i, j \in 1..Len(k_lines.shapes) :
        i < j => Rank(k_lines.shapes[i].cls) <= Rank(k_lines.shapes[j].cls)

-----------------------------------------------------------------------------
(* Callbacks of the price fetch *)

\* what the calls of the log were made for, in the order of the calls
Calls == [i \in LogIdx |-> <<last.log[i].layer, last.log[i].name>>]

\* the calls of the data callbacks, in the order of their registration
DataCalls == [i \in 1..Len(DataCallbacks) |-> <<"outdate", DataCallbacks[i]>>]

\* the calls of one draw pass on outdated datasets: the candles, then the
\* draw callbacks in the order of their registration (metric.draw stops at
\* DIF, the first metric)
DrawCalls ==
    <<(<<"kline", "kline">>)>> \o
    [i \in 1..Len(DrawCallbacks) |->
        IF DrawCallbacks[i] = "metric" THEN <<"metric", "DIF">>
        ELSE <<DrawCallbacks[i], DrawCallbacks[i]>>]

\* C11: when a price fetch completes, the candle series is replaced, every
\* data callback runs once in the order of registration, and only then one
\* draw pass runs every draw callback once in the order of registration.
C11_InvalidationPrecedesDrawing ==
    last.did.op = "kline.success" =>
        /\ Calls = DataCalls \o DrawCalls
        /\ kq = last.did.q
        /\ \A i \in LogIdx : last.log[i].layer \in Kinds => last.log[i].outdated

\* a price fetch completed while the overlays held records drawn before
C11_Witness ==
    /\ last.did.op = "kline.success"
    /\ kdata # <<>>
    /\ \A k \in Kinds : data[k] # <<>> /\ outdate[k]

-----------------------------------------------------------------------------
(* Annotations across a swap of the candle series *)

\* the index is the one of the candle with the timestamp
PointsAt(kd, id, ts) == id + 1 \in 1..Len(kd) /\ kd[id + 1] = ts

\* C12: a record a draw hands to the renderer carries a start_id and an end_id
\* computed against the candle series held: the indices of the candles with
\* its boundary timestamps, never indices left from the series held before.
C12_NoStaleAnnotations ==
    \A i \in LogIdx :
        \A j \in 1..Len(last.log[i].matched) :
            /\ PointsAt(kdata, last.log[i].matched[j].start_id,
                        last.log[i].matched[j].start_ts)
            /\ PointsAt(kdata, last.log[i].matched[j].end_id,
                        last.log[i].matched[j].end_ts)

-----------------------------------------------------------------------------
(* Failed fetches *)

-----------------------------------------------------------------------------
(* Staleness before the first load *)

\* data(input) was never called with an input for the overlay module: dq is
\* only written by OverlayData
NeverLoaded(k) == dq[k] = 0

\* metric.data(mn, input) was never called: every Data message that carries
\* the metric carries a value per candle, so loaded metric data is not empty
MetricNeverLoaded(mn) == m_data[mn] = <<>>

\* C14: a dataset that was never replaced is outdated, nothing of it is on
\* the canvas, and every draw of its layer in the last handler saw the flag
\* set and emitted no shape.
C14_InitialStaleness ==
    /\ \A k \in Kinds : NeverLoaded(k) =>
            /\ outdate[k]
            /\ CountCls(k_lines.shapes, Cls(k)) = 0
            /\ \A i \in LogIdx : last.log[i].layer = k =>
                    last.log[i].outdated /\ last.log[i].shapes = <<>>
    /\ \A mn \in MetricNames : MetricNeverLoaded(mn) =>
            /\ m_outdate[mn]
            /\ CountCls(m_svg.shapes, mn) = 0
            /\ \A i \in LogIdx : last.log[i].name = mn =>
                    last.log[i].outdated /\ last.log[i].shapes = <<>>

\* a draw pass ran over loaded candles and loaded segments while the strokes
\* had never arrived
C14_Witness ==
    /\ NeverLoaded("stroke")
    /\ ~NeverLoaded("segment")
    /\ kdata # <<>>
    /\ k_lines.exists
    /\ \E i \in LogIdx : last.log[i].layer = "stroke"
    /\ \E i \in LogIdx : last.log[i].layer = "segment" /\ last.log[i].shapes # <<>>

-----------------------------------------------------------------------------
(* Harness of data(input): the page after load, every call of data(input)  *)
(* with a list, empty or not, on what earlier calls left.                  *)

\* the lists handed to data(input) of an overlay module
DataInputs == {<<>>, RecordsOf(1), RecordsOf(2)}

\* the lists handed to metric.data(metric_name, input)
MetricInputs == {<<>>, KLinesOf(1), KLinesOf(2)}

\* data(input) of an overlay module; the entry keeps the flag the call found
\* and the list it was given
DataCall ==
    \E k \in Kinds : \E input \in DataInputs :
        /\ Len(input) <= MaxSegs
        /\ Becomes(Logged(OverlayData(Cur, k, [has_data |-> TRUE, data |-> input], params),
                           Entry("data", k, outdate[k], input, <<>>)),
                   Did("data", k, params, {TypeOf(k)}))

\* metric.data(metric_name, input)
MetricDataCall ==
    \E mn \in MetricNames : \E input \in MetricInputs :
        /\ Len(input) <= NT
        /\ Becomes(Logged(MetricData(Cur, mn, input),
                           Entry("metric.data", mn, m_outdate[mn], input, <<>>)),
                   Did("metric.data", mn, params, {"MACD"}))

NextData == DataCall \/ MetricDataCall

SpecData == Init /\ [][NextData]_vars

\* C15: after data(input) with a list the dataset holds exactly that list,
\* in its order, whatever it held before, and is no longer outdated; the
\* empty list included.
C15_ReplaceIsWholesale ==
    /\ last.did.op = "data" =>
            /\ data[last.did.name] = last.log[1].matched
            /\ ~outdate[last.did.name]
    /\ last.did.op = "metric.data" =>
            /\ m_data[last.did.name] = last.log[1].matched
            /\ ~m_outdate[last.did.name]

\* a loaded dataset was replaced by the empty list, and a loaded metric by
\* another list
C15_Witness ==
    /\ last.did.op = "data"
    /\ ~last.log[1].outdated
    /\ last.log[1].matched = <<>>
    /\ m_data["DIF"] = KLinesOf(2)
    /\ m_data["DEA"] = KLinesOf(1)

-----------------------------------------------------------------------------
(* Overlapping fetches *)

\* C16: the response of segment.ajax / center.ajax that completed last and
\* carried records is the one the dataset holds, and the dataset is fresh,
\* whichever query the response answers and whichever query the page is at.
C16_LastResponseWins ==
    (last.did.op = "ajax.success" /\ last.did.replaced # {}) =>
        /\ dq[last.did.name] = last.did.q
        /\ Fresh(data[last.did.name]) \in {RecordsOf(last.did.q), <<>>}
        /\ ~outdate[last.did.name]

\* the segments of query 2 were fetched and drawn, then the response to the
\* earlier request of query 1 completed: the dataset holds the records of
\* query 1 under the shapes of query 2
C16_Witness ==
    /\ last.did = Did("ajax.success", "segment", 1, {"Segments"})
    /\ params = 2
    /\ NeverLoaded("stroke")
    /\ \E i \in 1..Len(k_lines.shapes) :
           k_lines.shapes[i].cls = Cls("segment") /\ k_lines.shapes[i].q = 2
    /\ Fresh(data["segment"]) = RecordsOf(1)

-----------------------------------------------------------------------------
(* Fetch on demand *)

\* the draws of layer k in the log that ran enabled and found the flag set
OutdatedDraws(log, k) ==
    Cardinality({i \in 1..Len(log) : log[i].layer = k /\ log[i].outdated})

\* 1 if the handler that ran was a callback of the request (k, q)
Answered(did, k, q) ==
    IF did.op \in {"ajax.success", "ajax.error"} /\ did.name = k /\ did.q = q
    THEN 1 ELSE 0

-----------------------------------------------------------------------------
(* Harness of the gates of draw: the candles and the records of query 1    *)
(* are loaded in every module; the checkbox and the flag of one module,    *)
(* and those of the other modules, are in any position.                    *)

InitGate ==
    \E k \in AllKinds : \E own \in BOOLEAN \X BOOLEAN : \E others \in BOOLEAN \X BOOLEAN :
        /\ kdata = KLinesOf(1)
        /\ kq = 1
        /\ data = [j \in AllKinds |-> RecordsOf(1)]
        /\ dq = [j \in AllKinds |-> 1]
        /\ checked = [j \in AllKinds |-> IF j = k THEN own[1] ELSE others[1]]
        /\ outdate = [j \in AllKinds |-> IF j = k THEN own[2] ELSE others[2]]
        /\ k_lines = NewSvg
        /\ m_data = [mn \in MetricNames |-> <<>>]
        /\ m_outdate = [mn \in MetricNames |-> TRUE]
        /\ m_svg = NoSvg
        /\ pending = [r \in Requests |-> 0]
        /\ params = 1
        /\ knobs = DefaultKnobs
        /\ last = [did |-> Did("init", "", 0, {}), log |-> <<>>]

\* draw() of one module, whatever its checkbox and its flag
ModuleDraw ==
    \E k \in AllKinds :
        /\ Valid(params)
        /\ Becomes(IF k = "trend" THEN TrendDraw(Cur) ELSE RunDraw(Cur, k),
                   Did("module.draw", k, 0, {}))

NextGate == ModuleDraw

SpecGate == InitGate /\ [][NextGate]_vars

\* the handler leaves every dataset, every flag, the canvas and the requests
\* in flight as they are
NothingDone == UNCHANGED <<kdata, kq, data, dq, outdate, checked, k_lines, pending>>

\* C18: a draw of stroke, sub-trend or trend that runs enabled and outdated
\* sends no request and leaves records, flag and canvas as they are.
C18_SilentSkip ==
    [][\A k \in {"stroke", "subtrend", "trend"} :
         (last'.did = Did("module.draw", k, 0, {}) /\ checked[k] /\ outdate[k]) =>
             /\ NothingDone
             /\ last'.log = <<Entry(k, k, TRUE, <<>>, <<>>)>>
      ]_vars

\* trend.draw ran enabled on outdated records, over candles and an svg
C18_Witness ==
    /\ last.did = Did("module.draw", "trend", 0, {})
    /\ checked["trend"]
    /\ outdate["trend"]
    /\ data["trend"] # <<>>
    /\ kdata # <<>>
    /\ k_lines.exists

\* C19: what a draw does is decided by its own checkbox first and its own
\* flag second, whatever the checkboxes and flags of the other layers are:
\* unchecked, it does nothing, fresh or outdated; checked and outdated, it
\* emits nothing and fetches only if it is segment or center; checked and
\* fresh, it draws its records.
C19_ToggleGating ==
    [][\A k \in AllKinds :
         last'.did = Did("module.draw", k, 0, {}) =>
             /\ Len(last'.log) = 1
             /\ ~checked[k] => NothingDone /\ last'.log[1].shapes = <<>>
             /\ (checked[k] /\ outdate[k]) =>
                   /\ last'.log[1].shapes = <<>>
                   /\ UNCHANGED <<kdata, kq, data, dq, outdate, checked, k_lines>>
                   /\ pending' = IF FetchOnDemand(k)
                                 THEN [pending EXCEPT ![<<k, params>>] = @ + 1]
                                 ELSE pending
             /\ (checked[k] /\ ~outdate[k]) =>
                   /\ Len(last'.log[1].matched) = Len(data[k])
                   /\ CountCls(k_lines'.shapes, Cls(k)) = Len(data[k])
                   /\ UNCHANGED pending
      ]_vars

\* segment.draw ran unchecked and outdated while every other layer was
\* checked and fresh
C19_Witness ==
    /\ last.did = Did("module.draw", "segment", 0, {})
    /\ ~checked["segment"]
    /\ outdate["segment"]
    /\ \A j \in AllKinds \ {"segment"} : checked[j] /\ ~outdate[j]
    /\ pending = [r \in Requests |-> 0]

-----------------------------------------------------------------------------
(* The scan, one iteration at a time.  A loop state is the record list with *)
(* the annotations written so far, the two cursors and the flag start_match *)
(* (always FALSE in stroke and segment, which have no such flag).           *)

LoopState(d, ki, si, start_match) ==
    [d |-> d, ki |-> ki, si |-> si, start_match |-> start_match]

\* the body of the while loop of stroke.draw / segment.draw
StrokeIter(kd, st) ==
    LET sk == st.d[st.si + 1]
        k  == kd[st.ki + 1]
    IN  IF sk.start_ts = k
        THEN LoopState(SetStartId(st.d, st.si, st.ki), st.ki + 1, st.si, FALSE)
        ELSE IF sk.end_ts = k
        THEN LoopState(SetEndId(st.d, st.si, st.ki), st.ki, st.si + 1, FALSE)
        ELSE LoopState(st.d, st.ki + 1, st.si, FALSE)

\* the body of the while loop of center.draw as it would be if an end match
\* restarted the candle cursor
CenterIterRewind(kd, st) ==
    LET cr == st.d[st.si + 1]
        k  == kd[st.ki + 1]
    IN  IF ~st.start_match /\ cr.start_ts = k
        THEN LoopState(SetStartId(st.d, st.si, st.ki), st.ki, st.si, TRUE)
        ELSE IF cr.end_ts = k
        THEN LoopState(SetEndId(st.d, st.si, st.ki), 0, st.si + 1, FALSE)
        ELSE LoopState(st.d, st.ki + 1, st.si, st.start_match)

\* the body of the while loop of center.draw / subtrend.draw / trend.draw
CenterIter(kd, st) ==
    LET cr == st.d[st.si + 1]
        k  == kd[st.ki + 1]
    IN  IF ~st.start_match /\ cr.start_ts = k
        THEN LoopState(SetStartId(st.d, st.si, st.ki), st.ki, st.si, TRUE)
        ELSE IF cr.end_ts = k
        THEN LoopState(SetEndId(st.d, st.si, st.ki), st.ki, st.si + 1, FALSE)
        ELSE LoopState(st.d, st.ki + 1, st.si, st.start_match)

RECURSIVE ScanRun(_, _, _)
\* while (si < _data.length && ki < kdata.length): the loop states, from the
\* one the loop is entered with to the one it is left with
ScanRun(kind, kd, st) ==
    IF st.si < Len(st.d) /\ st.ki < Len(kd)
    THEN <<st>> \o ScanRun(kind, kd, IF kind \in {"stroke", "segment"}
                                     THEN StrokeIter(kd, st)
                                     ELSE CenterIter(kd, st))
    ELSE <<st>>

\* a record may start and end at the same timestamp
SpansEq == {p \in (1..NT) \X (1..NT) : p[1] <= p[2]}

\* lists of at most MaxSegs such records in chronological order
RecordListsEq ==
    LET lists == UNION {[1..n -> SpansEq] : n \in 0..MaxSegs}
        chron == {c \in lists : \A i \in 1..(Len(c) - 1) : c[i][2] <= c[i + 1][1]}
    IN  {[i \in 1..Len(c) |-> Rec(c[i][1], c[i][2])] : c \in chron}

InitScan ==
    \E k \in AllKinds : \E kd \in CandleSeqs : \E d \in RecordListsEq :
        /\ kdata = kd
        /\ kq = 1
        /\ data = [j \in AllKinds |-> IF j = k THEN d ELSE <<>>]
        /\ dq = [j \in AllKinds |-> IF j = k THEN 1 ELSE 0]
        /\ outdate = [j \in AllKinds |-> j # k]
        /\ checked = [j \in AllKinds |-> TRUE]
        /\ k_lines = NewSvg
        /\ m_data = [mn \in MetricNames |-> <<>>]
        /\ m_outdate = [mn \in MetricNames |-> TRUE]
        /\ m_svg = NoSvg
        /\ pending = [r \in Requests |-> 0]
        /\ params = 1
        /\ knobs = DefaultKnobs
        /\ last = [did |-> Did("init", "", 0, {}), log |-> <<>>]

NextScan == LayerDraw

SpecScan == InitScan /\ [][NextScan]_vars

\* the iteration from loop state a to loop state b moved forward: no cursor
\* went back, and ki advanced, si advanced or the flag was set
Forward(a, b) ==
    /\ b.ki >= a.ki
    /\ b.si >= a.si
    /\ \/ b.ki = a.ki + 1
       \/ b.si = a.si + 1
       \/ ~a.start_match /\ b.start_match

\* C20: on every candle series of length n and every record list of length
\* m, records with absent boundaries or with equal start and end timestamp
\* included, the scan of every module ends after at most n + 2m iterations,
\* each of them moving forward, with ki = n or si = m, and it ends with the
\* annotations the draw writes.
C20_ScanTerminates ==
    \A k \in AllKinds :
        LET n   == Len(kdata)
            m   == Len(data[k])
            run == ScanRun(k, kdata, LoopState(data[k], 0, 0, FALSE))
            fin == run[Len(run)]
        IN  /\ Len(run) - 1 <= n + 2 * m
            /\ \A i \in 1..(Len(run) - 1) : Forward(run[i], run[i + 1])
            /\ fin.ki = n \/ fin.si = m
            /\ fin.d = Scan(k, kdata, data[k])

\* center.draw scanned a list with a record that starts and ends at the same
\* candle and a record with an absent boundary, in at least n + m iterations
C20_Witness ==
    /\ last.did = Did("layer.draw", "center", 0, {})
    /\ \E i \in 1..Len(data["center"]) :
           /\ data["center"][i].start_ts = data["center"][i].end_ts
           /\ data["center"][i].start_ts \in Range(kdata)
    /\ \E i \in 1..Len(data["center"]) : ~InSeries(kdata, data["center"][i])
    /\ Len(ScanRun("center", kdata, LoopState(Fresh(data["center"]), 0, 0, FALSE))) - 1
           >= Len(kdata) + Len(data["center"])

-----------------------------------------------------------------------------
(* Harness of the geometry: the candles and the records of query 1 are     *)
(* loaded and fresh, the layout inputs are edited and draw() runs.         *)

\* the values the layout inputs can hold
KnobSets ==
    [bar_width : MinBarWidth..MaxBarWidth, fixed : BOOLEAN, fixed_width : 1..MaxPadWidth]

InitGeom ==
    \E kn \in KnobSets :
        /\ kdata = KLinesOf(1)
        /\ kq = 1
        /\ data = [k \in Kinds |-> RecordsOf(1)]
        /\ dq = [k \in Kinds |-> 1]
        /\ outdate = [k \in Kinds |-> FALSE]
        /\ checked = [k \in Kinds |-> TRUE]
        /\ k_lines = NoSvg
        /\ m_data = [mn \in MetricNames |-> <<>>]
        /\ m_outdate = [mn \in MetricNames |-> TRUE]
        /\ m_svg = NoSvg
        /\ pending = [r \in Requests |-> 0]
        /\ params = 1
        /\ knobs = kn
        /\ last = [did |-> Did("init", "", 0, {}), log |-> <<>>]

\* the user edits the layout inputs
KnobChange ==
    \E kn \in KnobSets :
        /\ kn # knobs
        /\ Becomes([Cur EXCEPT !.knobs = kn], Did("knobs", "", 0, {}))

NextGeom == KnobChange \/ DrawTrigger

SpecGeom == InitGeom /\ [][NextGeom]_vars

\* the shapes of the selector on the #k_lines svg
OnCanvas(cls) == {sh \in Range(k_lines.shapes) : sh.cls = cls}

\* C21: the padding is the fixed width if the fixed option is ticked and
\* max(bar_width / 3, 4) otherwise, the inner width is what the padding
\* leaves of the bar, the chart is as wide as one bar per candle; and the
\* candles a draw pass puts on the canvas have these measures.
C21_ResolvedGeometry ==
    LET c == Conf(Cur)
    IN  /\ c.bar_width = Px * knobs.bar_width
        /\ knobs.fixed => c.bar_padding = Px * knobs.fixed_width
        /\ ~knobs.fixed =>
              /\ c.bar_padding >= Px * 4
              /\ 3 * c.bar_padding >= c.bar_width
              /\ c.bar_padding = Px * 4 \/ 3 * c.bar_padding = c.bar_width
        /\ c.bar_inner_width + c.bar_padding = c.bar_width
        /\ c.w = Len(kdata) * c.bar_width
        /\ last.did.op = "draw" =>
              \A sh \in OnCanvas("rect.kline") :
                  /\ sh.x1 = sh.start_id * c.bar_width
                  /\ sh.x2 - sh.x1 = c.bar_inner_width
                  /\ sh.x1 + c.bar_width <= c.w

\* a draw pass drew the candles with the padding of 4 pixels: the fixed
\* option is not ticked and a third of the bar is less
C21_Witness ==
    /\ last.did.op = "draw"
    /\ ~knobs.fixed
    /\ knobs.bar_width < 12
    /\ Cardinality(OnCanvas("rect.kline")) = Len(kdata)
    /\ kdata # <<>>

-----------------------------------------------------------------------------
(* Ownership of the records *)

\* C23: a draw of a layer, its scan included, leaves the records of every
\* dataset as data(input) stored them: every record has the fields the
\* server sent and no other.
C23_ExclusiveOwnership ==
    last.did.op = "layer.draw" =>
        \A k \in AllKinds : data[k] = Fresh(data[k])

-----------------------------------------------------------------------------
(* Harness of the draw pass: candles loaded, a price request in flight or  *)
(* none, every overlay module with its checkbox and its flag in any        *)
(* position and holding no records, records that match or records that do  *)
(* not.                                                                    *)

\* a record whose boundaries are on no candle
NoMatch == <<Rec(0, NT + 5)>>

PassData == {<<>>, RecordsOf(1), NoMatch}

InitPass ==
    \E chk \in [Kinds -> BOOLEAN] : \E od \in [Kinds -> BOOLEAN] :
    \E d \in [Kinds -> PassData] : \E n \in {0, 1} :
        /\ kdata = KLinesOf(1)
        /\ kq = 1
        /\ data = d
        /\ dq = [k \in Kinds |-> 1]
        /\ outdate = od
        /\ checked = chk
        /\ k_lines = NoSvg
        /\ m_data = [mn \in MetricNames |-> <<>>]
        /\ m_outdate = [mn \in MetricNames |-> TRUE]
        /\ m_svg = NoSvg
        /\ pending = [r \in Requests |-> IF r = <<"kline", 1>> THEN n ELSE 0]
        /\ params = 1
        /\ knobs = DefaultKnobs
        /\ last = [did |-> Did("init", "", 0, {}), log |-> <<>>]

NextPass == DrawTrigger \/ KlineAjaxSuccess

SpecPass == InitPass /\ [][NextPass]_vars

RECURSIVE Invoked(_, _)
\* the draw functions the handler entered, in the order it entered them
\* (metric.draw is entered once and logs its metrics from DIF on)
Invoked(log, i) ==
    IF i > Len(log) THEN <<>>
    ELSE IF log[i].layer = "outdate" \/ (log[i].layer = "metric" /\ log[i].name # "DIF")
    THEN Invoked(log, i + 1)
    ELSE <<log[i].layer>> \o Invoked(log, i + 1)

RECURSIVE Ticked(_, _)
\* the layers of the list that query() puts into objects: the candles, the
\* metrics and the overlays whose checkbox is ticked
Ticked(layers, i) ==
    IF i > Len(layers) THEN <<>>
    ELSE IF layers[i] \in Kinds /\ ~checked[layers[i]]
    THEN Ticked(layers, i + 1)
    ELSE <<layers[i]>> \o Ticked(layers, i + 1)

\* the layers of draw() in its order
WsOrder == <<"center", "kline", "stroke", "segment", "subtrend", "metric">>

\* the candles, then the draw callbacks in the order of their registration
AjaxOrder == <<"kline">> \o DrawCallbacks

\* the layer of the entry could not draw: unticked, outdated, without
\* records or without a matched record
CannotDraw(e) ==
    /\ e.layer \in Kinds
    /\ \/ ~checked[e.layer]
       \/ e.outdated
       \/ data[e.layer] = <<>>
       \/ e.matched = <<>>

\* C24 as stated: in every draw pass the draw of every layer is entered
\* exactly once, in the order of the pass, unticked layers included.
C24_EveryLayerInvoked ==
    /\ last.did.op = "draw" => Invoked(last.log, 1) = WsOrder
    /\ last.did.op = "kline.success" => Invoked(last.log, 1) = AjaxOrder

\* C24: in every draw pass of draw() the draw of the candles, of the metrics
\* and of every ticked overlay is entered exactly once, in the order of the
\* pass (draw() does not call the draw of an unticked overlay); in the pass
\* of kline.draw every callback is entered exactly once in its order;
\* whatever the checkboxes, flags and records of the other layers are.  An
\* entered layer that cannot draw appends no shape.
C24_NoLayerAborts ==
    /\ last.did.op = "draw" => Invoked(last.log, 1) = Ticked(WsOrder, 1)
    /\ last.did.op = "kline.success" => Invoked(last.log, 1) = AjaxOrder
    /\ \A i \in LogIdx : CannotDraw(last.log[i]) => last.log[i].shapes = <<>>

\* a pass of draw() in which the centers were outdated, the strokes had no
\* records, no segment matched, and the subtrends after them were drawn
C24_Witness ==
    /\ last.did.op = "draw"
    /\ \A k \in Kinds : checked[k]
    /\ outdate["center"]
    /\ ~outdate["stroke"] /\ data["stroke"] = <<>>
    /\ ~outdate["segment"] /\ data["segment"] = NoMatch
    /\ \E i \in LogIdx : last.log[i].layer = "subtrend" /\ Len(last.log[i].shapes) = 2

-----------------------------------------------------------------------------
(* Empty candle series *)

\* C25: a draw pass over an empty candle series does not enter the draw of
\* the candles (no svg is created from a geometry of no candles, no entry
\* of the candle layer is logged), and no overlay draw appends a shape.
C25_EmptySeriesGuard ==
    (DrawPass /\ kdata = <<>>) =>
        /\ \A i \in LogIdx : last.log[i].layer # "kline"
        /\ ~k_lines.exists
        /\ \A i \in LogIdx : last.log[i].layer \in Kinds => last.log[i].shapes = <<>>

-----------------------------------------------------------------------------
(* The two variants of the scan *)

-----------------------------------------------------------------------------
(* Fetch on demand, again *)

\* C27: the success callback of a segment / center fetch leaves the dataset
\* fresh whatever the response holds, and the draw it runs finds it fresh
\* and sends no further request.
C27_NoFetchLoop ==
    last.did.op = "ajax.success" =>
        /\ ~outdate[last.did.name]
        /\ \A i \in LogIdx : ~last.log[i].outdated

-----------------------------------------------------------------------------
(* The canvas after a redraw of one layer *)

RECURSIVE OfCls(_, _)
\* the shapes of the selector, in the order they are on the svg
OfCls(shapes, cls) ==
    IF shapes = <<>> THEN <<>>
    ELSE IF Head(shapes).cls = cls
    THEN <<Head(shapes)>> \o OfCls(Tail(shapes), cls)
    ELSE OfCls(Tail(shapes), cls)

\* C28: after the success callback of a segment / center fetch has replaced
\* the records and drawn the layer onto the svg, the shapes of the layer on
\* the svg are those of the records the draw matched, one each, and no
\* other.
C28_CanvasMatchesDataset ==
    (/\ last.did.op = "ajax.success"
     /\ last.did.replaced # {}
     /\ k_lines.exists) =>
        OfCls(k_lines.shapes, Cls(last.did.name))
            = Place(OverlayShapes(last.did.name, SelectRecs(data[last.did.name]),
                                  dq[last.did.name]),
                    Conf(Cur))

-----------------------------------------------------------------------------
(* Order of the annotations *)

\* C29: after the scan of records that came without annotations, over n
\* candles, every index written is one of 0..n-1, a record with both
\* annotations has start_id <= end_id, and of two such records the earlier
\* in the list ends where or before the later starts.
C29_AnnotationsOrdered ==
    last.did.op = "layer.draw" =>
        LET d == data[last.did.name]
            n == Len(kdata)
        IN  /\ \A i \in 1..Len(d) :
                  /\ d[i].start_id # NoId => d[i].start_id \in 0..(n - 1)
                  /\ d[i].end_id # NoId => d[i].end_id \in 0..(n - 1)
                  /\ HasBoth(d[i]) => d[i].start_id <= d[i].end_id
            /\ \A i, j \in 1..Len(d) :
                  (i < j /\ HasBoth(d[i]) /\ HasBoth(d[j])) =>
                      d[i].end_id <= d[j].start_id

\* subtrend.draw annotated two chained records, the second ending on the
\* last candle
C29_Witness ==
    /\ last.did = Did("layer.draw", "subtrend", 0, {})
    /\ Len(data["subtrend"]) = 2
    /\ HasBoth(data["subtrend"][1])
    /\ HasBoth(data["subtrend"][2])
    /\ data["subtrend"][1].end_id = data["subtrend"][2].start_id
    /\ data["subtrend"][2].end_id = Len(kdata) - 1
    /\ Len(kdata) >= 3

-----------------------------------------------------------------------------
(* Harness of the metrics: each metric loaded on its own, metric.outdate   *)
(* and metric.draw in any order.                                           *)

\* metric.draw()
MetricDrawCall ==
    /\ Valid(params)
    /\ Becomes(MetricDraw(Cur), Did("metric.draw", "metric", 0, {}))

\* metric.outdate()
MetricOutdateCall ==
    /\ Valid(params)
    /\ Becomes(Outdate(Cur, "metric"), Did("metric.outdate", "metric", 0, {}))

NextMetric == MetricDataCall \/ MetricDrawCall \/ MetricOutdateCall

SpecMetric == Init /\ [][NextMetric]_vars

\* the place in DIF, DEA, MACD of the first metric whose flag is set, and
\* one past the last place if there is none
FirstStale ==
    IF \E i \in 1..Len(Metrics) : m_outdate[Metrics[i]]
    THEN CHOOSE i \in 1..Len(Metrics) :
             /\ m_outdate[Metrics[i]]
             /\ \A j \in 1..(i - 1) : ~m_outdate[Metrics[j]]
    ELSE Len(Metrics) + 1

\* C30: metric.draw drops the previous metric canvas and goes through DIF,
\* DEA, MACD in this order up to the first outdated one, where it returns:
\* the metrics before it are drawn, it and the metrics after it are not,
\* fresh or not; metric.outdate sets the flag of all three.
C30_MetricDrawStopsAtStale ==
    /\ last.did.op = "metric.draw" =>
          /\ Len(last.log) = IF FirstStale > Len(Metrics) THEN Len(Metrics) ELSE FirstStale
          /\ \A i \in LogIdx :
                /\ last.log[i].name = Metrics[i]
                /\ last.log[i].outdated = (i = FirstStale)
          /\ m_svg.shapes = ShapesOf(last.log, 1, Len(last.log))
          /\ \A i \in 1..Len(Metrics) :
                i >= FirstStale => CountCls(m_svg.shapes, Metrics[i]) = 0
          /\ \A i \in 1..Len(Metrics) :
                (i < FirstStale /\ m_data[Metrics[i]] # <<>>) =>
                    CountCls(m_svg.shapes, Metrics[i]) > 0
          /\ m_svg.exists = (FirstStale > 1)
    /\ last.did.op = "metric.outdate" => \A mn \in MetricNames : m_outdate[mn]

\* metric.draw ran with DIF and MACD fresh and DEA outdated, over a canvas
\* of an earlier draw: DIF is drawn, MACD is not
C30_Witness ==
    /\ last.did.op = "metric.draw"
    /\ ~m_outdate["DIF"]
    /\ m_outdate["DEA"]
    /\ ~m_outdate["MACD"]
    /\ m_data["MACD"] # <<>>
    /\ m_data["DEA"] # <<>>
    /\ CountCls(m_svg.shapes, "DIF") = 1

=============================================================================
